---- MODULE Spec2Model ----
(***************************************************************************)
(* Model of the cumin salt-api client: the credential cache                *)
(* (cumin/config.py), the request layer SaltApi (cumin/libpepper.py) and   *)
(* the dispatch client Client (cumin/client.py).                           *)
(*                                                                         *)
(* Python values are modelled as follows.  None is the record None.  A     *)
(* dict is a function from its keys (strings) to its values, {} is         *)
(* EmptyDict.  A str that is written to the cache file or sent as a token  *)
(* is the sequence of its characters; other strings are TLA+ strings.  A   *)
(* keyword argument that was supplied is the record Val(s).                *)
(***************************************************************************)
EXTENDS Integers, Sequences, FiniteSets, TLC

VARIABLES
    api_url,     \* SaltApi.api_url, NoApi while no SaltApi object exists
    auth,        \* SaltApi.auth, the held session credential (a dict)
    fileExists,  \* whether FileCache.token_file exists on disk
    file,        \* the characters of FileCache.token_file
    now,         \* time.time()
    fetcher,     \* the job id captured by the closure local_async returned
    last         \* the last call made by the caller and what came of it

vars == <<api_url, auth, fileExists, file, now, fetcher, last>>

(***************************************************************************)
(* Bounds and program constants                                            *)
(***************************************************************************)
MaxNow == 2

Margin == 30

None == [none |-> TRUE]

EmptyDict == [k \in {} |-> None]

Val(s) == [v |-> s]

NoError == "none"

NoJob == "nojob"

(***************************************************************************)
(* Credentials the backend hands out and callers store.  Their JSON        *)
(* documents have different lengths; one is already expired at time 0,     *)
(* one sits on the now+30 boundary while the clock runs.                   *)
(***************************************************************************)
Cred(e, t, x) == [eauth |-> e, token |-> t, expire |-> x]

Creds ==
    { Cred("pam", <<"a", "b", "c">>, 31),
      Cred("pam", <<"a">>, 99),
      Cred("kerberos", <<>>, 100),
      Cred("pam", <<"a", "b", "c", "d", "e">>, 5) }

(***************************************************************************)
(* json.dump / json.load on the cache file.  A document is a sequence of   *)
(* characters: null, or {eauth:token:expire} with the token spelled out    *)
(* character by character and expire in decimal digits.                    *)
(***************************************************************************)
DigitChar == <<"0", "1", "2", "3", "4", "5", "6", "7", "8", "9">>

RECURSIVE Digits(_)
Digits(n) ==
    IF n < 10 THEN <<DigitChar[n + 1]>>
    ELSE Append(Digits(n \div 10), DigitChar[(n % 10) + 1])

json_dump(obj) ==
    IF obj = None THEN <<"n", "u", "l", "l">>
    ELSE <<"{", obj.eauth, ":">> \o obj.token \o <<":">>
             \o Digits(obj.expire) \o <<"}">>

IsDigit(ch) == \E i \in 1..10 : DigitChar[i] = ch

DigitVal(ch) == (CHOOSE i \in 1..10 : DigitChar[i] = ch) - 1

RECURSIVE Number(_)
Number(s) ==
    IF Len(s) = 0 THEN 0
    ELSE 10 * Number(SubSeq(s, 1, Len(s) - 1)) + DigitVal(s[Len(s)])

\* index of the first occurrence of ch in s at or after i, 0 when there is none
RECURSIVE Find(_, _, _)
Find(s, ch, i) ==
    IF i > Len(s) THEN 0
    ELSE IF s[i] = ch THEN i
    ELSE Find(s, ch, i + 1)

\* json.load: [ok |-> FALSE] stands for json.JSONDecodeError
json_load(s) ==
    LET bad == [ok |-> FALSE, value |-> None]
        close == Find(s, "}", 1)
        c1 == Find(s, ":", 1)
        c2 == Find(s, ":", c1 + 1)
    IN  IF Len(s) >= 4 /\ SubSeq(s, 1, 4) = <<"n", "u", "l", "l">>
        THEN IF Len(s) = 4 THEN [ok |-> TRUE, value |-> None]
             ELSE bad                                   \* Extra data
        ELSE IF Len(s) = 0 \/ s[1] # "{" THEN bad       \* Expecting value
        ELSE IF close = 0 THEN bad                      \* unterminated object
        ELSE IF close < Len(s) THEN bad                 \* Extra data
        ELSE IF c1 # 3 \/ c2 = 0 \/ c2 + 1 > close - 1 THEN bad
        ELSE IF \E i \in (c2 + 1)..(close - 1) : ~IsDigit(s[i]) THEN bad
        ELSE [ok |-> TRUE,
              value |-> Cred(s[2], SubSeq(s, c1 + 1, c2 - 1),
                             Number(SubSeq(s, c2 + 1, close - 1)))]

(***************************************************************************)
(* os.open(O_WRONLY | O_CREAT) followed by a write from offset 0: the      *)
(* bytes written replace the head of the file, whatever lay beyond them    *)
(* stays.                                                                  *)
(***************************************************************************)
write_from_start(old, data) ==
    IF Len(data) >= Len(old) THEN data
    ELSE data \o SubSeq(old, Len(data) + 1, Len(old))

(***************************************************************************)
(* FileCache                                                               *)
(***************************************************************************)
\* FileCache.set_auth: the file after the call
FileCache_set_auth(old, a) == write_from_start(old, json_dump(a))

\* FileCache.get_auth: what the call raises and returns
FileCache_get_auth(exists, content, t) ==
    LET doc == json_load(content)
    IN  IF ~exists THEN [raised |-> "FileNotFoundError", value |-> None]
        ELSE IF ~doc.ok THEN [raised |-> "JSONDecodeError", value |-> None]
        ELSE IF doc.value = None
             THEN [raised |-> "TypeError", value |-> None]  \* None['expire']
        ELSE IF doc.value.expire < t + Margin
             THEN [raised |-> NoError, value |-> None]
        ELSE [raised |-> NoError, value |-> doc.value]

(***************************************************************************)
(* NullCache                                                               *)
(***************************************************************************)
\* NullCache.set_auth: pass, the file is left as it is
NullCache_set_auth(old, a) == old

\* NullCache.get_auth: return None
NullCache_get_auth == [raised |-> NoError, value |-> None]

(***************************************************************************)
(* URLs.  A URL is the sequence of its tokens: "https://x/salt-api/" is    *)
(* <<"https", ":", "/", "/", "x", "/", "salt-api", "/">>.  A token other   *)
(* than ":" and "/" is a run of characters without ":" or "/" in it, the   *)
(* host with its port is one token.                                        *)
(***************************************************************************)
DEFAULT_SETTINGS ==
    [url |-> <<"https", ":", "/", "/", "localhost:8000", "/">>,
     user |-> None, password |-> None, eauth |-> "auto"]

\* the value of api_url while no SaltApi object exists
NoApi == <<"no SaltApi">>

\* str.lower on the tokens of the model
lower(t) ==
    IF t = "HTTPS" THEN "https"
    ELSE IF t = "HTTP" THEN "http"
    ELSE IF t = "FTP" THEN "ftp"
    ELSE t

\* the tokens that start with a letter and hold scheme characters only
SchemeWords == {"http", "https", "HTTP", "HTTPS", "ftp", "FTP", "x"}

\* the number of tokens of s before the first "/", s itself if there is none
RECURSIVE upto_slash(_)
upto_slash(s) ==
    IF s = <<>> \/ s[1] = "/" THEN 0 ELSE 1 + upto_slash(Tail(s))

\* urlsplit: scheme (lowercased), netloc and path; the URLs of the model
\* have no query and no fragment
urlsplit(url) ==
    LET hasScheme == Find(url, ":", 1) = 2 /\ url[1] \in SchemeWords
        rest == IF hasScheme THEN SubSeq(url, 3, Len(url)) ELSE url
        hasNetloc == Len(rest) >= 2 /\ rest[1] = "/" /\ rest[2] = "/"
        after == SubSeq(rest, 3, Len(rest))
        n == upto_slash(after)
    IN  [scheme |-> IF hasScheme THEN lower(url[1]) ELSE "",
         netloc |-> IF hasNetloc THEN SubSeq(after, 1, n) ELSE <<>>,
         path |-> IF hasNetloc THEN SubSeq(after, n + 1, Len(after)) ELSE rest]

\* urlunsplit of a scheme, a netloc and a path
urlunsplit(scheme, netloc, path) ==
    LET withNetloc ==
            IF netloc # <<>>
               \/ (scheme # "" /\ ~(Len(path) >= 2 /\ path[1] = "/" /\ path[2] = "/"))
            THEN <<"/", "/">> \o netloc
                 \o (IF path # <<>> /\ path[1] # "/" THEN <<"/">> ELSE <<>>)
                 \o path
            ELSE path
    IN  IF scheme # "" THEN <<scheme, ":">> \o withNetloc ELSE withNetloc

\* path.split('/'): the segments of a path, "" for an empty one
RECURSIVE split(_)
split(p) ==
    IF p = <<>> THEN <<"">>
    ELSE IF p[1] = "/" THEN <<"">> \o split(Tail(p))
    ELSE IF Len(p) = 1 THEN <<p[1]>>
    ELSE <<p[1]>> \o split(SubSeq(p, 3, Len(p)))

\* '/'.join(segments)
RECURSIVE join(_)
join(segments) ==
    LET head == IF segments[1] = "" THEN <<>> ELSE <<segments[1]>>
    IN  IF Len(segments) = 1 THEN head
        ELSE head \o <<"/">> \o join(Tail(segments))

\* segments[1:-1] = filter(None, segments[1:-1])
filter_inner(segments) ==
    IF Len(segments) < 3 THEN segments
    ELSE <<segments[1]>>
         \o SelectSeq(SubSeq(segments, 2, Len(segments) - 1),
                      LAMBDA seg : seg # "")
         \o <<segments[Len(segments)]>>

\* the loop of urljoin over the segments: ".." pops, "." is skipped
RECURSIVE resolve(_, _, _)
resolve(segments, i, resolved) ==
    IF i > Len(segments) THEN resolved
    ELSE IF segments[i] = ".."
    THEN resolve(segments, i + 1,
                 IF resolved = <<>> THEN resolved
                 ELSE SubSeq(resolved, 1, Len(resolved) - 1))
    ELSE IF segments[i] = "." THEN resolve(segments, i + 1, resolved)
    ELSE resolve(segments, i + 1, Append(resolved, segments[i]))

\* urllib.parse.urljoin(base, url) for a base with a scheme that allows
\* relative URLs
urljoin(base, url) ==
    LET b == urlsplit(base)
        u == urlsplit(url)
        base_parts == IF split(b.path)[Len(split(b.path))] # ""
                      THEN SubSeq(split(b.path), 1, Len(split(b.path)) - 1)
                      ELSE split(b.path)
        segments == IF u.path # <<>> /\ u.path[1] = "/" THEN split(u.path)
                    ELSE filter_inner(base_parts \o split(u.path))
        dots == segments[Len(segments)] \in {".", ".."}
        resolved == resolve(segments, 1, <<>>) \o (IF dots THEN <<"">> ELSE <<>>)
        path == IF resolved = <<>> \/ join(resolved) = <<>> THEN <<"/">>
                ELSE join(resolved)
    IN  IF base = <<>> THEN url
        ELSE IF url = <<>> THEN base
        ELSE IF u.scheme # "" /\ u.scheme # b.scheme THEN url
        ELSE IF u.netloc # <<>> THEN urlunsplit(b.scheme, u.netloc, u.path)
        ELSE IF u.path = <<>> THEN urlunsplit(b.scheme, b.netloc, b.path)
        ELSE urlunsplit(b.scheme, b.netloc, path)

\* path.lstrip('/')
RECURSIVE lstrip(_)
lstrip(path) ==
    IF path # <<>> /\ path[1] = "/" THEN lstrip(Tail(path)) ELSE path

\* _construct_url passing the path to urljoin as it is
_construct_url_as_given(base, path) == urljoin(base, path)

\* SaltApi._construct_url
_construct_url(base, path) == urljoin(base, lstrip(path))

\* SaltApi.__init__ accepting whatever scheme the URL has
SaltApi_init_any_scheme(url, kwargs) ==
    IF ~(kwargs \subseteq {"ignore_ssl_errors"})
    THEN [raised |-> "TypeError", api_url |-> NoApi, auth |-> None]
    ELSE [raised |-> NoError, api_url |-> url, auth |-> EmptyDict]

\* SaltApi.__init__(api_url, **kwargs): what it raises and the fields of the
\* object it leaves; a keyword it does not name is a TypeError
SaltApi_init(url, kwargs) ==
    IF ~(kwargs \subseteq {"ignore_ssl_errors"})
    THEN [raised |-> "TypeError", api_url |-> NoApi, auth |-> None]
    ELSE IF urlsplit(url).scheme \notin {"http", "https"}
    THEN [raised |-> "PepperException", api_url |-> NoApi, auth |-> None]
    ELSE [raised |-> NoError, api_url |-> url, auth |-> EmptyDict]

(***************************************************************************)
(* Request layer: SaltApi                                                  *)
(***************************************************************************)
\* a Python list, as a value that can be compared with None and with dicts
List(s) == [list |-> s]

IsList(x) == DOMAIN x = {"list"}

\* key in data: a list of command dicts never contains a string
In(key, data) == IF IsList(data) THEN FALSE ELSE key \in DOMAIN data

setdefault(h, k, v) == IF k \in DOMAIN h THEN h ELSE (k :> v) @@ h

\* SaltTokenAuth(token).__call__(request): the request's headers afterwards
SaltTokenAuth(token, headers) ==
    IF token # <<>> THEN setdefault(headers, "X-Auth-Token", token)
    ELSE headers

\* _find_auth with the two branches swapped: a held token wins over kerberos
_find_auth_token_first(a, data) ==
    LET kerberos ==
            IF data # None /\ In("eauth", data)
            THEN data["eauth"] = "kerberos"
            ELSE "eauth" \in DOMAIN a /\ a["eauth"] = "kerberos"
    IN  IF a # EmptyDict /\ "token" \in DOMAIN a /\ a["token"] # <<>>
        THEN [kind |-> "token", token |-> a["token"]]
        ELSE IF kerberos THEN [kind |-> "kerberos", token |-> <<>>]
        ELSE None

\* SaltApi._find_auth: None, HTTPKerberosAuth or SaltTokenAuth(token)
_find_auth(a, data) ==
    LET kerberos ==
            IF data # None /\ In("eauth", data)
            THEN data["eauth"] = "kerberos"
            ELSE "eauth" \in DOMAIN a /\ a["eauth"] = "kerberos"
    IN  IF kerberos THEN [kind |-> "kerberos", token |-> <<>>]
        ELSE IF a # EmptyDict /\ "token" \in DOMAIN a /\ a["token"] # <<>>
        THEN [kind |-> "token", token |-> a["token"]]
        ELSE None

\* requests applies the auth object to the prepared request
apply_auth(authobj, headers) ==
    IF authobj = None THEN headers
    ELSE IF authobj.kind = "token" THEN SaltTokenAuth(authobj.token, headers)
    ELSE headers

BaseHead ==
    ("Accept" :> "application/json")
        @@ ("Content-Type" :> "application/json")
        @@ ("X-Requested-With" :> "XMLHttpRequest")

\* what the backend does with one request: the connection fails, or a
\* response with a status, a body that is JSON or not, and its "return" list
Answer(io, status, json, ret) ==
    [io |-> io, status |-> status, json |-> json, ret |-> ret]

\* _mkrequest raising AuthenticationDenied only for a 401 without a JSON body
_mkrequest_401_needs_empty_body(a, method, path, data, headers, ans) ==
    LET authobj == _find_auth(a, data)
        head == headers @@ BaseHead
        req == [method |-> method, path |-> path, data |-> data,
                auth |-> authobj, headers |-> apply_auth(authobj, head)]
    IN  IF ans.io = "fail"
        THEN [req |-> req, raised |-> "ConnectionError", resp |-> None]
        ELSE IF ans.status = 401 /\ ~ans.json
        THEN [req |-> req, raised |-> "AuthenticationDenied", resp |-> None]
        ELSE IF ans.status = 500
        THEN [req |-> req, raised |-> "ServerError", resp |-> None]
        ELSE [req |-> req, raised |-> NoError, resp |-> ans]

\* SaltApi._mkrequest: the request sent, the error raised, the response
_mkrequest(a, method, path, data, headers, ans) ==
    LET authobj == _find_auth(a, data)
        head == headers @@ BaseHead
        req == [method |-> method, path |-> path, data |-> data,
                auth |-> authobj, headers |-> apply_auth(authobj, head)]
    IN  IF ans.io = "fail"
        THEN [req |-> req, raised |-> "ConnectionError", resp |-> None]
        ELSE IF ans.status = 401
        THEN [req |-> req, raised |-> "AuthenticationDenied", resp |-> None]
        ELSE IF ans.status = 500
        THEN [req |-> req, raised |-> "ServerError", resp |-> None]
        ELSE [req |-> req, raised |-> NoError, resp |-> ans]

\* the outcome of a SaltApi or Client method: the requests it sent, the
\* error it raised, the value it returned, and self.auth afterwards
Outcome(reqs, raised, value, a) ==
    [reqs |-> reqs, raised |-> raised, value |-> value, auth |-> a]

\* run sending the request a second time when the first one is refused
run_retries_on_401(a, cmds, ans) ==
    LET m == _mkrequest(a, "post", "/", cmds, EmptyDict, ans)
    IN  IF m.raised = "AuthenticationDenied"
        THEN Outcome(<<m.req, m.req>>, m.raised, None, a)
        ELSE IF m.raised # NoError THEN Outcome(<<m.req>>, m.raised, None, a)
        ELSE IF ~m.resp.json
        THEN Outcome(<<m.req>>, "JSONDecodeError", None, a)
        ELSE Outcome(<<m.req>>, NoError, [return |-> m.resp.ret], a)

\* run dropping the held credential when the request is refused
run_drops_session_on_401(a, cmds, ans) ==
    LET m == _mkrequest(a, "post", "/", cmds, EmptyDict, ans)
    IN  IF m.raised = "AuthenticationDenied"
        THEN Outcome(<<m.req>>, m.raised, None, EmptyDict)
        ELSE IF m.raised # NoError THEN Outcome(<<m.req>>, m.raised, None, a)
        ELSE IF ~m.resp.json
        THEN Outcome(<<m.req>>, "JSONDecodeError", None, a)
        ELSE Outcome(<<m.req>>, NoError, [return |-> m.resp.ret], a)

\* SaltApi.run
run(a, cmds, ans) ==
    LET m == _mkrequest(a, "post", "/", cmds, EmptyDict, ans)
    IN  IF m.raised # NoError THEN Outcome(<<m.req>>, m.raised, None, a)
        ELSE IF ~m.resp.json
        THEN Outcome(<<m.req>>, "JSONDecodeError", None, a)
        ELSE Outcome(<<m.req>>, NoError, [return |-> m.resp.ret], a)

\* SaltApi.login: _mkrequest hands back the Response object itself, and
\* body['return'] on a Response raises TypeError before self.auth is assigned
login(a, username, password, eauth, ans) ==
    LET m == _mkrequest(a, "post", "/login",
                        [username |-> username, password |-> password,
                         eauth |-> eauth],
                        EmptyDict, ans)
    IN  IF m.raised # NoError THEN Outcome(<<m.req>>, m.raised, None, a)
        ELSE Outcome(<<m.req>>, "TypeError", None, a)

\* SaltApi.logout
logout(a, ans) ==
    LET m == _mkrequest(a, "post", "/logout", None, EmptyDict, ans)
    IN  IF m.raised # NoError THEN Outcome(<<m.req>>, m.raised, None, a)
        ELSE Outcome(<<m.req>>, NoError, None, EmptyDict)

(***************************************************************************)
(* The event stream.  A line is the sequence of its tokens: <<>> is the    *)
(* blank line, a line starting with ":" is a comment, any other line is    *)
(* field ":" value.  The data of a record is the sequence of the tokens    *)
(* of its data lines, with "\n" between two lines.                         *)
(***************************************************************************)
Blank == <<>>

Comment == <<":", "keepalive">>

DataLine(v) == <<"data", ":", v>>

EventLine(t) == <<"event", ":", t>>

NoEvent == "message"

\* sse_line emitting the record at the first data line instead of at the
\* blank line
sse_line_emits_per_data_line(st, line) ==
    IF line = Blank
    THEN [buf |-> <<>>, has |-> FALSE, event |-> NoEvent, out |-> st.out]
    ELSE IF line[1] = ":" THEN st
    ELSE IF line[1] = "data"
    THEN [st EXCEPT !.out = Append(st.out,
                                   [data |-> SubSeq(line, 3, Len(line)),
                                    event |-> st.event])]
    ELSE IF line[1] = "event" THEN [st EXCEPT !.event = line[3]]
    ELSE st

\* one line fed to the parser: st is the record being assembled (buf, has,
\* event) and the records emitted so far (out)
sse_line(st, line) ==
    IF line = Blank
    THEN [buf |-> <<>>, has |-> FALSE, event |-> NoEvent,
          out |-> IF st.has
                  THEN Append(st.out, [data |-> st.buf, event |-> st.event])
                  ELSE st.out]
    ELSE IF line[1] = ":" THEN st
    ELSE IF line[1] = "data"
    THEN [st EXCEPT !.buf = IF st.has
                             THEN st.buf \o <<"\n">> \o SubSeq(line, 3, Len(line))
                             ELSE SubSeq(line, 3, Len(line)),
                    !.has = TRUE]
    ELSE IF line[1] = "event" THEN [st EXCEPT !.event = line[3]]
    ELSE st

RECURSIVE sse_feed(_, _, _)
sse_feed(st, lines, i) ==
    IF i > Len(lines) THEN st
    ELSE sse_feed(sse_line(st, lines[i]), lines, i + 1)

\* stream_sse: the records framed from the lines of the response body; a
\* record still open when the stream ends is dropped
stream_sse(lines) ==
    sse_feed([buf |-> <<>>, has |-> FALSE, event |-> NoEvent, out |-> <<>>],
             lines, 1).out

\* json.loads(msg['data']): the documents of the stream are 1, [] and [1],
\* a newline between two tokens is whitespace
json_loads(text) ==
    LET tokens == SelectSeq(text, LAMBDA ch : ch # "\n")
    IN  IF tokens \in {<<"1">>, <<"[", "]">>, <<"[", "1", "]">>}
        THEN [ok |-> TRUE, value |-> tokens]
        ELSE [ok |-> FALSE, value |-> <<>>]

\* the loop of SaltApi.events over the records: what it yielded before the
\* first record whose data does not decode
RECURSIVE yield_events(_, _, _)
yield_events(frames, i, yielded) ==
    IF i > Len(frames) THEN [raised |-> NoError, yielded |-> yielded]
    ELSE IF ~json_loads(frames[i].data).ok
    THEN [raised |-> "JSONDecodeError", yielded |-> yielded]
    ELSE yield_events(frames, i + 1,
                      Append(yielded, json_loads(frames[i].data).value))

\* SaltApi.events, iterated to the end of the stream: stream_sse opens the
\* stream with one GET through _mkrequest and frames the body; every record's
\* data is decoded and yielded
events(a, ans) ==
    LET m == _mkrequest(a, "get", "/events", None, EmptyDict, ans)
        frames == stream_sse(m.resp.ret)
        y == yield_events(frames, 1, <<>>)
    IN  IF m.raised # NoError THEN Outcome(<<m.req>>, m.raised, None, a)
        ELSE Outcome(<<m.req>>, y.raised,
                     [frames |-> frames, yielded |-> y.yielded], a)

\* '/jobs/' + jid
JobPath(jid) == IF jid = "j1" THEN "/jobs/j1" ELSE "/jobs/j2"

\* SaltApi.jobs(jid), as Client.local_async's closure calls it
jobs(a, jid, ans) ==
    LET m == _mkrequest(a, "get", JobPath(jid), None, EmptyDict, ans)
    IN  IF m.raised # NoError THEN Outcome(<<m.req>>, m.raised, None, a)
        ELSE IF ~m.resp.json
        THEN Outcome(<<m.req>>, "JSONDecodeError", None, a)
        ELSE Outcome(<<m.req>>, NoError, [info |-> m.resp.ret], a)

(***************************************************************************)
(* Dispatch client: Client                                                 *)
(***************************************************************************)
\* _dict_filter_none without the filter
_dict_filter_nothing(kwarg) == kwarg

_dict_filter_none(kwarg) ==
    [k \in {j \in DOMAIN kwarg : kwarg[j] # None} |-> kwarg[k]]

\* r['return'][0] on the outcome of run
first_return(r) ==
    IF r.raised # NoError THEN r
    ELSE IF Len(r.value["return"]) = 0
    THEN [r EXCEPT !.raised = "IndexError", !.value = None]
    ELSE [r EXCEPT !.value = r.value["return"][1]]

local_kwarg(tgt, fun, arg, kwarg, tgt_type, timeout, ret) ==
    [client |-> Val("local"), tgt |-> tgt, fun |-> fun, arg |-> arg,
     kwarg |-> kwarg, tgt_type |-> tgt_type, timeout |-> timeout, ret |-> ret]

Client_local(a, tgt, fun, arg, kwarg, tgt_type, timeout, ret, ans) ==
    first_return(run(a,
        List(<<_dict_filter_none(
            local_kwarg(tgt, fun, arg, kwarg, tgt_type, timeout, ret))>>),
        ans))

local_async_kwarg(tgt, fun, arg, kwarg, tgt_type, timeout, ret) ==
    [client |-> Val("local_async"), tgt |-> tgt, fun |-> fun, arg |-> arg,
     kwarg |-> kwarg, tgt_type |-> tgt_type, timeout |-> timeout, ret |-> ret]

\* local_async asking for the job's status itself, right after submitting
Client_local_async_polls(a, tgt, fun, arg, kwarg, tgt_type, timeout, ret, ans) ==
    LET r == first_return(run(a,
                List(<<_dict_filter_none(
                    local_async_kwarg(tgt, fun, arg, kwarg, tgt_type,
                                      timeout, ret))>>),
                ans))
    IN  IF r.raised # NoError THEN r
        ELSE [r EXCEPT !.reqs = r.reqs \o jobs(a, r.value.jid, ans).reqs,
                       !.value = [minions |-> r.value.minions,
                                  jid |-> r.value.jid]]

\* Client.local_async: the value is the pair (minions, jid of the closure)
Client_local_async(a, tgt, fun, arg, kwarg, tgt_type, timeout, ret, ans) ==
    LET r == first_return(run(a,
                List(<<_dict_filter_none(
                    local_async_kwarg(tgt, fun, arg, kwarg, tgt_type,
                                      timeout, ret))>>),
                ans))
    IN  IF r.raised # NoError THEN r
        ELSE [r EXCEPT !.value = [minions |-> r.value.minions,
                                  jid |-> r.value.jid]]

local_batch_kwarg(tgt, fun, arg, kwarg, tgt_type, batch, ret) ==
    [client |-> Val("local_batch"), tgt |-> tgt, fun |-> fun, arg |-> arg,
     kwarg |-> kwarg, tgt_type |-> tgt_type, batch |-> batch, ret |-> ret]

\* local_batch returning ['return'][0] the way local does
Client_local_batch_first_only(a, tgt, fun, arg, kwarg, tgt_type, batch, ret, ans) ==
    LET r == first_return(run(a,
                List(<<_dict_filter_none(
                    local_batch_kwarg(tgt, fun, arg, kwarg, tgt_type,
                                      batch, ret))>>),
                ans))
    IN  IF r.raised # NoError THEN r
        ELSE [r EXCEPT !.value = <<r.value>>]

\* Client.local_batch, iterated to its end: the value is what it yielded
Client_local_batch(a, tgt, fun, arg, kwarg, tgt_type, batch, ret, ans) ==
    LET r == run(a,
                List(<<_dict_filter_none(
                    local_batch_kwarg(tgt, fun, arg, kwarg, tgt_type,
                                      batch, ret))>>),
                ans)
    IN  IF r.raised # NoError THEN r
        ELSE [r EXCEPT !.value = r.value["return"]]

runner_kwarg(fun, arg, kwarg) ==
    [client |-> Val("runner"), fun |-> fun, arg |-> arg, kwarg |-> kwarg]

Client_runner(a, fun, arg, kwarg, ans) ==
    first_return(run(a,
        List(<<_dict_filter_none(runner_kwarg(fun, arg, kwarg))>>), ans))

wheel_kwarg(fun, arg, kwarg) ==
    [client |-> Val("wheel"), fun |-> fun, arg |-> arg, kwarg |-> kwarg]

Client_wheel(a, fun, arg, kwarg, ans) ==
    first_return(run(a,
        List(<<_dict_filter_none(wheel_kwarg(fun, arg, kwarg))>>), ans))

\* the closure local_async returned: self.api.jobs(jid)['info'][0]
status_fetcher(a, jid, ans) ==
    LET r == jobs(a, jid, ans)
    IN  IF r.raised # NoError THEN r
        ELSE IF Len(r.value["info"]) = 0
        THEN [r EXCEPT !.raised = "IndexError", !.value = None]
        ELSE [r EXCEPT !.value = r.value["info"][1]]

(***************************************************************************)
(* The environment: what the backend answers and what the caller passes    *)
(***************************************************************************)
Failures ==
    { Answer("fail", 0, FALSE, <<>>),
      Answer("ok", 401, FALSE, <<>>),
      Answer("ok", 401, TRUE, <<>>),
      Answer("ok", 500, FALSE, <<>>),
      Answer("ok", 404, FALSE, <<>>) }

PlainAnswers == Failures \cup {Answer("ok", 200, TRUE, <<>>)}

LoginAnswers == Failures \cup {Answer("ok", 200, TRUE, <<c>>) : c \in Creds}

ResultAnswers ==
    Failures \cup {Answer("ok", 200, TRUE, r) : r \in {<<>>, <<"r1">>}}

BatchAnswers ==
    Failures \cup {Answer("ok", 200, TRUE, r) :
                      r \in {<<>>, <<"b1">>, <<"b1", "b2">>, <<"b2", "b1">>}}

Minions == {"ms-0", "ms-1"}

AsyncAnswers ==
    Failures \cup {Answer("ok", 200, TRUE, <<[jid |-> j, minions |-> Minions]>>) :
                      j \in {"j1", "j2"}}

JobAnswers ==
    Failures \cup {Answer("ok", 200, TRUE, r) :
                      r \in {<<>>, <<[m \in Minions |-> "done"]>>}}

\* the answers the payload specification needs: one success, one refusal
OkOrDenied(answers) ==
    {ans \in answers : ans.io = "ok" /\ ans.status \in {200, 401} /\ ans.json}

OptArg == {None, Val("x")}

TgtTypes == {None, Val("glob"), Val("pcre")}

\* the optional arguments of one dispatch call; opt stands for timeout
\* (local, local_async) or batch (local_batch)
Options(arg, kwarg, tgt_type, opt, ret) ==
    [arg |-> arg, kwarg |-> kwarg, tgt_type |-> tgt_type, opt |-> opt,
     ret |-> ret]

\* every combination of set and unset optional arguments
AllOptions ==
    {Options(arg, kwarg, tgt_type, opt, ret) :
        arg \in OptArg, kwarg \in OptArg, tgt_type \in TgtTypes,
        opt \in OptArg, ret \in OptArg}

\* the two calls the session specification makes: defaults only, all given
FewOptions ==
    { Options(None, None, Val("glob"), None, None),
      Options(Val("x"), Val("x"), Val("pcre"), Val("x"), Val("x")) }

DispatchOps == {"local", "local_async", "local_batch", "runner", "wheel"}

NoPrev == [op |-> "none", arg |-> None]

NoAnswer == Answer("none", 0, FALSE, <<>>)

\* api_url=None, or any other false value: the configured URL is used
NoUrl == <<>>

\* Client.__init__: what it raises, the requests it sent and the fields of
\* the SaltApi of the client it leaves
Client_init(url, config, auto_login, ans) ==
    LET api == SaltApi_init(IF url # NoUrl THEN url ELSE config.url,
                            {"cache", "ignore_ssl_errors"})
        r == login(api.auth, config.user.v, config.password.v, config.eauth, ans)
    IN  IF api.raised # NoError
        THEN [raised |-> api.raised, reqs |-> <<>>,
              api_url |-> NoApi, auth |-> None]
        ELSE IF auto_login /\ config.user # None /\ api.auth = EmptyDict
        THEN IF r.raised # NoError
             THEN [raised |-> r.raised, reqs |-> r.reqs,
                   api_url |-> NoApi, auth |-> None]
             ELSE [raised |-> NoError, reqs |-> r.reqs,
                   api_url |-> api.api_url, auth |-> r.auth]
        ELSE [raised |-> NoError, reqs |-> <<>>,
              api_url |-> api.api_url, auth |-> api.auth]

\* the record of one call: its name, what the caller passed, what the
\* backend answered, the requests it sent, what it raised and returned, and
\* (for get_auth) the call before it
Call(op, arg, ans, r, prev) ==
    [op |-> op, arg |-> arg, answer |-> ans, reqs |-> r.reqs,
     raised |-> r.raised, value |-> r.value, prev |-> prev]

(***************************************************************************)
(* Initial state: a SaltApi just constructed (self.auth = {}), no cache    *)
(* file yet, no call made                                                  *)
(***************************************************************************)
Init ==
    /\ api_url = DEFAULT_SETTINGS.url
    /\ auth = EmptyDict
    /\ fileExists = FALSE
    /\ file = <<>>
    /\ now = 0
    /\ fetcher = NoJob
    /\ last = Call("init", None, NoAnswer,
                   Outcome(<<>>, NoError, None, EmptyDict), NoPrev)

(***************************************************************************)
(* Actions, one per call the caller can make.  The sets of inputs are      *)
(* parameters, so that each specification enumerates what its claims need. *)
(***************************************************************************)
Tick ==
    /\ now < MaxNow
    /\ now' = now + 1
    /\ UNCHANGED <<api_url, auth, fileExists, file, fetcher, last>>

CacheSet(values) ==
    \E a \in values :
        /\ fileExists' = TRUE
        /\ file' = FileCache_set_auth(file, a)
        /\ last' = Call("set_auth", a, NoAnswer,
                        Outcome(<<>>, NoError, None, auth), NoPrev)
        /\ UNCHANGED <<api_url, auth, now, fetcher>>

CacheGet ==
    LET r == FileCache_get_auth(fileExists, file, now)
    IN  /\ last' = Call("get_auth", None, NoAnswer,
                        Outcome(<<>>, r.raised, r.value, auth),
                        [op |-> last.op,
                         arg |-> IF last.op = "set_auth" THEN last.arg
                                 ELSE IF last.op = "login" /\ last.answer.status = 200
                                 THEN last.answer.ret[1]
                                 ELSE None])
        /\ UNCHANGED <<api_url, auth, fileExists, file, now, fetcher>>

NullSet(values) ==
    \E a \in values :
        /\ file' = NullCache_set_auth(file, a)
        /\ last' = Call("NullCache.set_auth", a, NoAnswer,
                        Outcome(<<>>, NoError, None, auth), NoPrev)
        /\ UNCHANGED <<api_url, auth, fileExists, now, fetcher>>

NullGet ==
    LET r == NullCache_get_auth
    IN  /\ last' = Call("NullCache.get_auth", None, NoAnswer,
                        Outcome(<<>>, r.raised, r.value, auth),
                        [op |-> last.op,
                         arg |-> IF last.op = "NullCache.set_auth"
                                 THEN last.arg ELSE None])
        /\ UNCHANGED <<api_url, auth, fileExists, file, now, fetcher>>

Login ==
    \E eauth \in {"pam", "kerberos"}, ans \in LoginAnswers :
        LET r == login(auth, "saltdev", "x", eauth, ans)
        IN  /\ auth' = r.auth
            /\ last' = Call("login", None, ans, r, NoPrev)
            /\ UNCHANGED <<api_url, fileExists, file, now, fetcher>>

Logout ==
    \E ans \in PlainAnswers :
        LET r == logout(auth, ans)
        IN  /\ auth' = r.auth
            /\ last' = Call("logout", None, ans, r, NoPrev)
            /\ UNCHANGED <<api_url, fileExists, file, now, fetcher>>

Local(options, answers) ==
    \E o \in options, ans \in answers :
        LET r == Client_local(auth, Val("*"), Val("test.ping"), o.arg,
                              o.kwarg, o.tgt_type, o.opt, o.ret, ans)
        IN  /\ auth' = r.auth
            /\ last' = Call("local",
                            local_kwarg(Val("*"), Val("test.ping"), o.arg,
                                        o.kwarg, o.tgt_type, o.opt, o.ret),
                            ans, r, NoPrev)
            /\ UNCHANGED <<api_url, fileExists, file, now, fetcher>>

LocalAsync(options, answers) ==
    \E o \in options, ans \in answers :
        LET r == Client_local_async(auth, Val("*"), Val("test.ping"), o.arg,
                                    o.kwarg, o.tgt_type, o.opt, o.ret, ans)
        IN  /\ auth' = r.auth
            /\ fetcher' = IF r.raised = NoError THEN r.value.jid ELSE fetcher
            /\ last' = Call("local_async",
                            local_async_kwarg(Val("*"), Val("test.ping"),
                                              o.arg, o.kwarg, o.tgt_type,
                                              o.opt, o.ret),
                            ans, r, NoPrev)
            /\ UNCHANGED <<api_url, fileExists, file, now>>

FetchStatus ==
    /\ fetcher # NoJob
    /\ \E ans \in JobAnswers :
        LET r == status_fetcher(auth, fetcher, ans)
        IN  /\ auth' = r.auth
            /\ last' = Call("status_fetcher", None, ans, r, NoPrev)
            /\ UNCHANGED <<api_url, fileExists, file, now, fetcher>>

LocalBatch(options, answers) ==
    \E o \in options, ans \in answers :
        LET r == Client_local_batch(auth, Val("*"), Val("test.ping"), o.arg,
                                    o.kwarg, o.tgt_type, o.opt, o.ret, ans)
        IN  /\ auth' = r.auth
            /\ last' = Call("local_batch",
                            local_batch_kwarg(Val("*"), Val("test.ping"),
                                              o.arg, o.kwarg, o.tgt_type,
                                              o.opt, o.ret),
                            ans, r, NoPrev)
            /\ UNCHANGED <<api_url, fileExists, file, now, fetcher>>

Runner(options, answers) ==
    \E o \in options, ans \in answers :
        LET r == Client_runner(auth, Val("jobs.list_jobs"), o.arg, o.kwarg, ans)
        IN  /\ auth' = r.auth
            /\ last' = Call("runner",
                            runner_kwarg(Val("jobs.list_jobs"), o.arg, o.kwarg),
                            ans, r, NoPrev)
            /\ UNCHANGED <<api_url, fileExists, file, now, fetcher>>

Wheel(options, answers) ==
    \E o \in options, ans \in answers :
        LET r == Client_wheel(auth, Val("key.list_all"), o.arg, o.kwarg, ans)
        IN  /\ auth' = r.auth
            /\ last' = Call("wheel",
                            wheel_kwarg(Val("key.list_all"), o.arg, o.kwarg),
                            ans, r, NoPrev)
            /\ UNCHANGED <<api_url, fileExists, file, now, fetcher>>

Events(answers) ==
    \E ans \in answers :
        LET r == events(auth, ans)
        IN  /\ auth' = r.auth
            /\ last' = Call("events", None, ans, r, NoPrev)
            /\ UNCHANGED <<api_url, fileExists, file, now, fetcher>>

\* api = SaltApi(url, **kwargs)
SaltApiInit(urls, kwargsets) ==
    \E url \in urls, kwargs \in kwargsets :
        LET r == SaltApi_init(url, kwargs)
        IN  /\ api_url' = r.api_url
            /\ auth' = r.auth
            /\ last' = Call("SaltApi", url, NoAnswer,
                            Outcome(<<>>, r.raised, None, r.auth), NoPrev)
            /\ UNCHANGED <<fileExists, file, now, fetcher>>

\* api._construct_url(path)
ConstructUrl(paths) ==
    /\ api_url # NoApi
    /\ \E path \in paths :
           /\ last' = Call("_construct_url", path, NoAnswer,
                           Outcome(<<>>, NoError, _construct_url(api_url, path), auth),
                           NoPrev)
           /\ UNCHANGED <<api_url, auth, fileExists, file, now, fetcher>>

\* Client(url, config=..., cache=FileCache(config), auto_login=...)
ClientInit(urls, users, answers) ==
    \E url \in urls, user \in users, auto_login \in BOOLEAN, ans \in answers :
        LET config == [DEFAULT_SETTINGS EXCEPT !.user = user,
                                               !.password = Val("x")]
            r == Client_init(url, config, auto_login, ans)
        IN  /\ api_url' = r.api_url
            /\ auth' = r.auth
            /\ last' = Call("Client",
                            [api_url |-> url, user |-> user,
                             auto_login |-> auto_login],
                            ans, Outcome(r.reqs, r.raised, None, r.auth), NoPrev)
            /\ UNCHANGED <<fileExists, file, now, fetcher>>

(***************************************************************************)
(* Spec: one client session and its cache file                             *)
(***************************************************************************)
SessionCreds ==
    {Cred("pam", <<"a", "b", "c">>, 31), Cred("pam", <<"a">>, 99), None}

Next ==
    \/ Tick
    \/ CacheSet(SessionCreds)
    \/ CacheGet
    \/ Login
    \/ Logout
    \/ Local(FewOptions, ResultAnswers)
    \/ LocalAsync(FewOptions, AsyncAnswers)
    \/ FetchStatus
    \/ LocalBatch(FewOptions, BatchAnswers)
    \/ Runner(FewOptions, ResultAnswers)
    \/ Wheel(FewOptions, ResultAnswers)
    \/ Events(PlainAnswers)

Spec == Init /\ [][Next]_vars

(***************************************************************************)
(* SpecCache: the file-backed cache on its own, every credential           *)
(***************************************************************************)
NextCache ==
    \/ Tick
    \/ CacheSet(Creds \cup {None})
    \/ CacheGet
    \/ NullSet(Creds \cup {None})
    \/ NullGet

SpecCache == Init /\ [][NextCache]_vars

(***************************************************************************)
(* SpecLastWrite: the file-backed cache written only with credentials that *)
(* stay unexpired at every time of the model, of several sizes             *)
(***************************************************************************)
LongLivedCreds ==
    {Cred("pam", t, x) : t \in {<<>>, <<"a">>, <<"a", "b", "c">>},
                         x \in {99, 100}}

NextLastWrite ==
    \/ Tick
    \/ CacheSet(LongLivedCreds)
    \/ CacheGet

SpecLastWrite == Init /\ [][NextLastWrite]_vars

(***************************************************************************)
(* SpecPayload: the five dispatch operations, every combination of         *)
(* optional arguments                                                      *)
(***************************************************************************)
NextPayload ==
    \/ Local(AllOptions, OkOrDenied(ResultAnswers))
    \/ LocalAsync(AllOptions, OkOrDenied(AsyncAnswers))
    \/ LocalBatch(AllOptions, OkOrDenied(BatchAnswers))
    \/ Runner(AllOptions, OkOrDenied(ResultAnswers))
    \/ Wheel(AllOptions, OkOrDenied(ResultAnswers))

SpecPayload == Init /\ [][NextPayload]_vars

(***************************************************************************)
(* SpecAuth: _find_auth over every held credential.  self.auth is drawn    *)
(* from the dicts a login answer can leave there: with or without eauth,   *)
(* with, without or with an empty token.                                   *)
(***************************************************************************)
AuthDicts ==
    {EmptyDict}
        \cup {("eauth" :> e) : e \in {"pam", "kerberos"}}
        \cup {("token" :> t) : t \in {<<>>, <<"a", "b", "c">>}}
        \cup {("eauth" :> e) @@ ("token" :> t) :
                e \in {"pam", "kerberos"}, t \in {<<>>, <<"a", "b", "c">>}}

InitAuth ==
    /\ api_url = DEFAULT_SETTINGS.url
    /\ auth \in AuthDicts
    /\ fileExists = FALSE
    /\ file = <<>>
    /\ now = 0
    /\ fetcher = NoJob
    /\ last = Call("init", None, NoAnswer,
                   Outcome(<<>>, NoError, None, EmptyDict), NoPrev)

NextAuth ==
    \/ Login
    \/ Logout
    \/ Local(FewOptions, ResultAnswers)
    \/ LocalAsync(FewOptions, AsyncAnswers)
    \/ FetchStatus
    \/ LocalBatch(FewOptions, BatchAnswers)
    \/ Runner(FewOptions, ResultAnswers)
    \/ Wheel(FewOptions, ResultAnswers)
    \/ Events(PlainAnswers)

SpecAuth == InitAuth /\ [][NextAuth]_vars

(***************************************************************************)
(* SpecEvents: the event stream, every body of up to MaxLines lines        *)
(***************************************************************************)
MaxLines == 3

StreamLines ==
    {Blank, Comment, EventLine("t"), DataLine("1"), DataLine("["), DataLine("]")}

Streams ==
    UNION {[1..n -> StreamLines] : n \in 0..MaxLines}

StreamAnswers ==
    Failures \cup {Answer("ok", 200, FALSE, body) : body \in Streams}

NextEvents == Events(StreamAnswers)

SpecEvents == Init /\ [][NextEvents]_vars

(***************************************************************************)
(* SpecUrl: constructing the request layer and building endpoint URLs,     *)
(* starting with no SaltApi object                                         *)
(***************************************************************************)
BasePaths ==
    {<<>>, <<"/">>, <<"/", "salt-api">>, <<"/", "salt-api", "/">>,
     <<"/", "a", "/", "b", "/">>}

GoodUrls ==
    {<<scheme, ":", "/", "/", "x">> \o p :
         scheme \in {"http", "https", "HTTPS"}, p \in BasePaths}

BadUrls ==
    {<<"ftp", ":", "/", "/", "x">>, <<"FTP", ":", "/", "/", "x", "/">>,
     <<"x", "/", "salt-api">>, <<"/", "/", "x", "/">>,
     <<"x", ":", "8000">>, <<>>}

SubPaths ==
    {<<"/">>, <<"login">>, <<"/", "login">>, <<"/", "/", "login">>,
     <<"jobs", "/", "j1">>, <<"/", "jobs", "/", "j1">>,
     <<"..", "/", "login">>, <<".", "/", "login">>}

InitUrl ==
    /\ api_url = NoApi
    /\ auth = None
    /\ fileExists = FALSE
    /\ file = <<>>
    /\ now = 0
    /\ fetcher = NoJob
    /\ last = Call("init", None, NoAnswer,
                   Outcome(<<>>, NoError, None, EmptyDict), NoPrev)

NextUrl ==
    \/ SaltApiInit(GoodUrls \cup BadUrls, {{}, {"ignore_ssl_errors"}})
    \/ ConstructUrl(SubPaths)

SpecUrl == InitUrl /\ [][NextUrl]_vars

(***************************************************************************)
(* SpecClient: constructing a Client over a cache file that holds          *)
(* whatever was stored before                                              *)
(***************************************************************************)
NextClient ==
    \/ Tick
    \/ CacheSet(SessionCreds)
    \/ ClientInit({NoUrl, <<"http", ":", "/", "/", "x", "/">>},
                  {None, Val("saltdev")}, LoginAnswers)

SpecClient == InitUrl /\ [][NextClient]_vars

TypeOK ==
    /\ now \in 0..MaxNow
    /\ fileExists \in BOOLEAN
    /\ fetcher \in {NoJob, "j1", "j2"}

(***************************************************************************)
(* Properties                                                              *)
(***************************************************************************)
Sent(call) == Len(call.reqs) > 0

HasToken(a) == "token" \in DOMAIN a /\ a["token"] # <<>>

\* the credential the cache file holds, None when it holds none
Stored ==
    IF fileExists /\ json_load(file).ok THEN json_load(file).value ELSE None

\* C1: FileCache round trip with expiry.  get_auth() right after set_auth(c)
\* returns c when c.expire > now + 30 and returns None, without raising,
\* when c.expire <= now + 30.
C1_RoundTripWithExpiry ==
    (last.op = "get_auth" /\ last.prev.op = "set_auth" /\ last.prev.arg # None)
        => /\ last.raised = NoError
           /\ last.value = IF last.prev.arg.expire > now + 30
                           THEN last.prev.arg ELSE None

\* C2: get_auth() right after set_auth(None) returns None and does not raise.
C2_ClearThenGetIsAbsent ==
    (last.op = "get_auth" /\ last.prev.op = "set_auth" /\ last.prev.arg = None)
        => last.raised = NoError /\ last.value = None

\* C3: after a login the backend answered with 200 and a credential, the
\* held credential is that credential; every dispatch request made while a
\* credential with a token is held carries the token in X-Auth-Token.
C3_LoginHoldsCredential ==
    /\ (last.op = "login" /\ last.answer.io = "ok" /\ last.answer.status = 200)
          => auth = last.answer.ret[1]
    /\ (last.op \in DispatchOps /\ HasToken(auth))
          => /\ "X-Auth-Token" \in DOMAIN last.reqs[1].headers
             /\ last.reqs[1].headers["X-Auth-Token"] = auth["token"]

\* C4: get_auth() right after a login the backend answered with 200 and an
\* unexpired credential returns that credential.
C4_LoginFillsCache ==
    (/\ last.op = "get_auth"
     /\ last.prev.op = "login"
     /\ last.prev.arg # None
     /\ last.prev.arg.expire > now + 30)
        => last.raised = NoError /\ last.value = last.prev.arg

\* C5: after logout(), whatever the backend answered, the held credential
\* is empty and the cache holds no credential.
C5_LogoutClearsLocalState ==
    last.op = "logout" => auth = EmptyDict /\ Stored = None

\* C6: per request, kerberos is used when the payload's eauth is kerberos,
\* or the payload has no eauth and the held credential's eauth is kerberos,
\* and then no X-Auth-Token is attached; otherwise a held non-empty token is
\* attached as X-Auth-Token; otherwise the request carries no authentication.
PayloadHasEauth(data) == data # None /\ ~IsList(data) /\ "eauth" \in DOMAIN data

AuthFollowsPrecedence(held, req) ==
    LET kerberos ==
            \/ PayloadHasEauth(req.data) /\ req.data["eauth"] = "kerberos"
            \/ /\ ~PayloadHasEauth(req.data)
               /\ "eauth" \in DOMAIN held
               /\ held["eauth"] = "kerberos"
    IN  IF kerberos
        THEN /\ req.auth # None
             /\ req.auth.kind = "kerberos"
             /\ "X-Auth-Token" \notin DOMAIN req.headers
        ELSE IF HasToken(held)
        THEN /\ req.auth # None
             /\ req.auth.kind = "token"
             /\ "X-Auth-Token" \in DOMAIN req.headers
             /\ req.headers["X-Auth-Token"] = held["token"]
        ELSE /\ req.auth = None
             /\ "X-Auth-Token" \notin DOMAIN req.headers

C7_StatusToError ==
    (Sent(last) /\ last.answer.io = "ok")
        => /\ last.answer.status = 401 <=> last.raised = "AuthenticationDenied"
           /\ last.answer.status = 500 <=> last.raised = "ServerError"

\* a 401 with a JSON body was turned into AuthenticationDenied
C7_Witness ==
    /\ last.op = "events"
    /\ last.answer.status = 401
    /\ last.answer.json
    /\ last.raised = "AuthenticationDenied"

\* C8: each dispatch operation, login and logout sends exactly one request
\* per call; on 401 or 500 the typed error is what the caller gets.
C8_NoRetry ==
    last.op \in DispatchOps \cup {"login", "logout"}
        => /\ Len(last.reqs) = 1
           /\ (last.answer.io = "ok" /\ last.answer.status = 401)
                 => last.raised = "AuthenticationDenied"
           /\ (last.answer.io = "ok" /\ last.answer.status = 500)
                 => last.raised = "ServerError"

\* a dispatch was refused with 401 and the call ended after its one request
C8_Witness ==
    /\ last.op = "local"
    /\ last.answer.status = 401
    /\ last.raised = "AuthenticationDenied"
    /\ Len(last.reqs) = 1

\* C9: only login and logout change the held credential; dispatch calls,
\* the status fetcher and event-stream reads leave it as it was.
C9_OnlyLoginLogoutChangeAuth ==
    [][last'.op \in DispatchOps \cup {"status_fetcher", "events"}
          => auth' = auth]_vars

\* a batch dispatch was refused with 401 and the token is still held
C9_Witness ==
    /\ last.op = "local_batch"
    /\ last.raised = "AuthenticationDenied"
    /\ HasToken(auth)

\* C10: the one command payload of a dispatch call has no key whose value
\* is None, has every argument that was supplied with the value supplied,
\* and for runner and wheel has neither tgt nor tgt_type.
C10_PayloadAbsence ==
    last.op \in DispatchOps
        => LET cmds == last.reqs[1].data
               payload == cmds.list[1]
           IN  /\ IsList(cmds)
               /\ Len(cmds.list) = 1
               /\ \A k \in DOMAIN payload : payload[k] # None
               /\ \A k \in DOMAIN last.arg :
                     last.arg[k] # None
                        => k \in DOMAIN payload /\ payload[k] = last.arg[k]
               /\ last.op \in {"runner", "wheel"}
                     => DOMAIN payload \cap {"tgt", "tgt_type"} = {}

\* a runner call with arg unset and kwarg set sent kwarg and no arg
C10_Witness ==
    /\ last.op = "runner"
    /\ last.arg["arg"] = None
    /\ last.arg["kwarg"] # None
    /\ DOMAIN last.reqs[1].data.list[1] = {"client", "fun", "kwarg"}

C12_BatchYieldsInOrder ==
    last.op = "local_batch"
        => /\ Len(last.reqs) = 1
           /\ Len(last.reqs[1].data.list) = 1
           /\ last.reqs[1].data.list[1]["client"] = Val("local_batch")
           /\ (/\ last.answer.io = "ok"
               /\ last.answer.status \notin {401, 500}
               /\ last.answer.json)
                 => last.raised = NoError /\ last.value = last.answer.ret

\* two batches came back as b2 then b1 and were yielded in that order
C12_Witness ==
    /\ last.op = "local_batch"
    /\ last.raised = NoError
    /\ last.value = <<"b2", "b1">>

\* C13: the records framed from a stream are, in stream order, one record
\* for each blank line whose block (the lines since the previous blank
\* line) has at least one data line, its data being the block's data lines
\* in order joined with newlines; a block without a data line gives none.
BlockStart(lines, i) ==
    IF \E j \in 1..(i - 1) : lines[j] = Blank
    THEN 1 + CHOOSE j \in 1..(i - 1) :
                 /\ lines[j] = Blank
                 /\ \A k \in (j + 1)..(i - 1) : lines[k] # Blank
    ELSE 1

IsDataLine(line) == Len(line) > 0 /\ line[1] = "data"

BlockData(lines, i) ==
    SelectSeq(SubSeq(lines, BlockStart(lines, i), i - 1), IsDataLine)

RECURSIVE JoinData(_)
JoinData(dataLines) ==
    IF Len(dataLines) = 1 THEN Tail(Tail(dataLines[1]))
    ELSE Tail(Tail(dataLines[1])) \o <<"\n">> \o JoinData(Tail(dataLines))

Emitting(lines) ==
    {i \in 1..Len(lines) : lines[i] = Blank /\ Len(BlockData(lines, i)) > 0}

C16_GetRaisesOnlyOnMalformed ==
    /\ last.op = "get_auth"
          => /\ (last.raised # NoError) <=> (fileExists /\ ~json_load(file).ok)
             /\ Stored = None => last.value = None
    /\ last.op = "NullCache.get_auth"
          => last.raised = NoError /\ last.value = None

\* C18: last write wins.  After set_auth(c) the file is exactly the document
\* of c, whatever was written before, and get_auth() right after it returns
\* c without raising.
C18_LastWriteWins ==
    /\ last.op = "set_auth" => file = json_dump(last.arg)
    /\ (last.op = "get_auth" /\ last.prev.op = "set_auth")
          => last.raised = NoError /\ last.value = last.prev.arg

\* C14: SaltApi(url) succeeds, leaving an object with that URL and an empty
\* session, when the URL's scheme is http or https in either case, and
\* otherwise raises PepperException and leaves no object.
C14_SchemeChecked ==
    last.op = "SaltApi"
        => IF /\ Len(last.arg) >= 2
              /\ last.arg[2] = ":"
              /\ last.arg[1] \in {"http", "https", "HTTP", "HTTPS"}
           THEN last.raised = NoError /\ api_url = last.arg /\ auth = EmptyDict
           ELSE last.raised = "PepperException" /\ api_url = NoApi /\ auth = None

C14_Witness ==
    /\ last.op = "SaltApi"
    /\ last.arg = <<"ftp", ":", "/", "/", "x">>
    /\ last.raised = "PepperException"
    /\ api_url = NoApi

\* the base URL's scheme (lowercased), "://" and host
Origin(base) == <<lower(base[1])>> \o SubSeq(base, 2, 5)

\* the base URL up to and including the last "/" of its path, the base
\* followed by "/" when it has no path
Directory(base) ==
    IF Len(base) = 5 THEN Origin(base) \o <<"/">>
    ELSE Origin(base)
         \o SubSeq(base, 6, CHOOSE i \in 6..Len(base) :
                                /\ base[i] = "/"
                                /\ \A j \in (i + 1)..Len(base) : base[j] # "/")

HasDots(path) == \E i \in 1..Len(path) : path[i] \in {".", ".."}

LeadingSlashes(path) ==
    CHOOSE k \in 0..Len(path) :
        /\ \A i \in 1..k : path[i] = "/"
        /\ k = Len(path) \/ path[k + 1] # "/"

\* C15 as stated: a sub-path with a leading slash replaces the path of the
\* base URL, a relative sub-path is appended to the base's directory.
C15_LeadingSlashReplacesPath ==
    (last.op = "_construct_url" /\ ~HasDots(last.arg))
        => IF LeadingSlashes(last.arg) = 1
           THEN last.value = Origin(api_url) \o last.arg
           ELSE LeadingSlashes(last.arg) = 0
                   => last.value = Directory(api_url) \o last.arg

\* C15, amended: the leading slashes of the sub-path are stripped and the
\* rest is resolved relative to the base URL, so a leading slash never
\* replaces the base's path: the result is the base's directory followed by
\* the stripped sub-path, and the base itself when nothing is left; the
\* result always keeps the base's scheme and host.
C15_LeadingSlashesStripped ==
    last.op = "_construct_url"
        => LET k == LeadingSlashes(last.arg)
               rest == SubSeq(last.arg, k + 1, Len(last.arg))
           IN  /\ rest = <<>> => last.value = api_url
               /\ rest # <<>> => SubSeq(last.value, 1, 5) = Origin(api_url)
               /\ (rest # <<>> /\ ~HasDots(rest))
                     => last.value = Directory(api_url) \o rest

C15_Witness ==
    /\ last.op = "_construct_url"
    /\ api_url = <<"https", ":", "/", "/", "x", "/", "salt-api", "/">>
    /\ last.arg = <<"/", "login">>
    /\ last.value = <<"https", ":", "/", "/", "x", "/", "salt-api", "/", "login">>

\* C17: when the cache holds a usable credential, constructing a Client
\* succeeds, the client holds that credential and no login request is
\* sent; a login request is sent only when a user is configured and the
\* cache holds no usable credential.
C17_ConstructionReadsCache ==
    last.op = "Client"
        => LET cached == FileCache_get_auth(fileExists, file, now)
               usable == cached.raised = NoError /\ cached.value # None
           IN  /\ usable => /\ last.raised = NoError
                            /\ auth = cached.value
                            /\ last.reqs = <<>>
               /\ Sent(last) => last.arg.user # None /\ ~usable
====
